---- MODULE Spec2Model ----
(***************************************************************************)
(* State-machine model of the escrow-payment Anchor program                *)
(* (programs/escrow-payment/src).  One PaymentAgreement account lives at   *)
(* the program address derived from (payer, name); its lamports are the    *)
(* rent deposit paid by `init` plus the escrowed amount.  Every            *)
(* instruction is one atomic transaction: account validation, the handler  *)
(* body, the exit step (close), and a full revert when any of them fails.  *)
(***************************************************************************)
EXTENDS Integers, Sequences, FiniteSets, TLC

\* ------------------------------------------------------------------------
\* Bounds of the model
\* ------------------------------------------------------------------------

\* lamports the first wallet starts with (the other wallets start empty).
\* What is left after the rent deposit bounds the amounts; as long as it is
\* below Rent no receiver can fund an agreement of its own, so that one
\* agreement exists at a time (created, settled, reclaimed, created again).
PayerFunds == 4

\* largest clock value; the clock stops ticking there
MaxTime == 2

\* ------------------------------------------------------------------------
\* Values of the program and of the runtime
\* ------------------------------------------------------------------------

\* wallets (Pubkeys) that sign and receive
Ids == {"P", "R", "F", "X"}

\* Option<T>: None is the empty sequence, Some(v) the one-element sequence
None == <<>>

Some(v) == <<v>>

is_some(o) == o # None

unwrap(o) == o[1]

Option(S) == {None} \cup {Some(v) : v \in S}

\* #[max_len(32)] of PaymentAgreement.name, and the bound of the name check
MaxNameLen == 32

\* the longest seed a program address can be derived from
MaxSeedLen == 32

\* names a caller may pass: empty, well-formed, 33 bytes long
Names == {"", "rent", "abcdefghijklmnopqrstuvwxyz0123456"}

\* the names a program address exists for
SeedNames == {n \in Names : Len(n) <= MaxSeedLen}

\* the program addresses: seeds = ["payment_agreement", payer, name]
Keys == Ids \X SeedNames

\* the address of a wallet, as an account of the ledger
Wallet(id) == <<id>>

\* every account that holds lamports
Accounts == {Wallet(id) : id \in Ids} \cup Keys

\* rent-exempt deposit `init` takes from the payer for the new account
Rent == 3

\* the zeroed Pubkey of an account that holds no agreement
DefaultPubkey == "0"

\* account data of an address that holds no agreement (all zero)
ZeroAgreement ==
    [ name |-> "", payer |-> DefaultPubkey, receiver |-> DefaultPubkey,
      referee |-> None, amount |-> 0, expiration_timestamp |-> None,
      payer_approved |-> FALSE, receiver_approved |-> FALSE,
      payer_requested_cancel |-> FALSE, receiver_requested_cancel |-> FALSE,
      is_completed |-> FALSE, is_cancelled |-> FALSE,
      is_referee_intervened |-> FALSE ]

VARIABLES
    payment_agreement,  \* Keys -> PaymentAgreement: the data of each account
    initialized,        \* the Keys whose account exists (owned by the program)
    lamports,           \* Accounts -> Nat: balance of every account
    clock               \* Clock::get()?.unix_timestamp

vars == <<payment_agreement, initialized, lamports, clock>>

\* the ledger a transaction reads and writes
Ledger == [pa |-> payment_agreement, init |-> initialized, lam |-> lamports]

\* result of a transaction: an error code ("Ok" on success) and the ledger
Result(err, pa, init, lam) == [err |-> err, pa |-> pa, init |-> init, lam |-> lam]

\* a failed transaction is reverted as a whole
Revert(L, err) == Result(err, L.pa, L.init, L.lam)

\* mutant: the debit of the account is forgotten
sub_lamports_forgotten(lam, a, n) == lam

\* AccountInfo::sub_lamports: checked_sub
can_sub_lamports(lam, a, n) == lam[a] >= n

\* AccountInfo::sub_lamports: the debit
sub_lamports(lam, a, n) == [lam EXCEPT ![a] = @ - n]

\* AccountInfo::add_lamports (the total supply is far below 2^64: no overflow)
add_lamports(lam, a, n) == [lam EXCEPT ![a] = @ + n]

\* ------------------------------------------------------------------------
\* Account validation (the #[derive(Accounts)] structs)
\* ------------------------------------------------------------------------

\* CreatePaymentAgreement: `init` derives the address from (payer, name),
\* needs the address to be unused and makes the payer fund the rent deposit
CreatePaymentAgreement(L, payer, name) ==
    IF Len(name) > MaxSeedLen THEN "MaxSeedLengthExceeded"
    ELSE IF <<payer, name>> \in L.init THEN "AccountAlreadyInUse"
    ELSE IF L.lam[Wallet(payer)] < Rent THEN "InsufficientFundsForRent"
    ELSE "Ok"

\* ApprovePaymentAgreement: the account at the address derived from the
\* claimed payer and the name must hold an agreement
ApprovePaymentAgreement(L, payer, name) ==
    IF Len(name) > MaxSeedLen THEN "MaxSeedLengthExceeded"
    ELSE IF <<payer, name>> \notin L.init THEN "AccountNotInitialized"
    ELSE "Ok"

\* CancelPaymentAgreement: same address constraint
CancelPaymentAgreement(L, payer, name) ==
    IF Len(name) > MaxSeedLen THEN "MaxSeedLengthExceeded"
    ELSE IF <<payer, name>> \notin L.init THEN "AccountNotInitialized"
    ELSE "Ok"

\* WithdrawExpiredFunds: same address constraint; the payer is the signer
WithdrawExpiredFunds(L, payer, name) ==
    IF Len(name) > MaxSeedLen THEN "MaxSeedLengthExceeded"
    ELSE IF <<payer, name>> \notin L.init THEN "AccountNotInitialized"
    ELSE "Ok"

\* mutant: the account is not closed at exit
close_account_missing(R, key, payer) == R

\* `close = payer` at exit: all lamports of the account go to the payer,
\* the data is zeroed and the address is free again
close_account(R, key, payer) ==
    Result("Ok",
           [R.pa EXCEPT ![key] = ZeroAgreement],
           R.init \ {key},
           [R.lam EXCEPT ![Wallet(payer)] = @ + R.lam[key], ![key] = 0])

\* ------------------------------------------------------------------------
\* create_payment_agreement
\* ------------------------------------------------------------------------

\* mutant: the balance check is strict
create_guards_strict_balance(payer_balance, payer, name, receiver, referee, amount, expiration_timestamp, now) ==
    IF ~(Len(name) > 0 /\ Len(name) <= MaxNameLen) THEN "InvalidName"
    ELSE IF ~(payer # receiver) THEN "PayerCannotBeReceiver"
    ELSE IF is_some(referee) /\ ~(unwrap(referee) # payer) THEN "RefereeCannotBePayer"
    ELSE IF is_some(referee) /\ ~(unwrap(referee) # receiver) THEN "RefereeCannotBeReceiver"
    ELSE IF is_some(expiration_timestamp) /\ ~(unwrap(expiration_timestamp) > now)
         THEN "ExpirationMustBeInFuture"
    ELSE IF ~(payer_balance > amount) THEN "InsufficientFunds"
    ELSE "Ok"

\* mutant: an expiration equal to the current time is accepted
create_guards_expiration_now(payer_balance, payer, name, receiver, referee, amount, expiration_timestamp, now) ==
    IF ~(Len(name) > 0 /\ Len(name) <= MaxNameLen) THEN "InvalidName"
    ELSE IF ~(payer # receiver) THEN "PayerCannotBeReceiver"
    ELSE IF is_some(referee) /\ ~(unwrap(referee) # payer) THEN "RefereeCannotBePayer"
    ELSE IF is_some(referee) /\ ~(unwrap(referee) # receiver) THEN "RefereeCannotBeReceiver"
    ELSE IF is_some(expiration_timestamp) /\ ~(unwrap(expiration_timestamp) >= now)
         THEN "ExpirationMustBeInFuture"
    ELSE IF ~(payer_balance >= amount) THEN "InsufficientFunds"
    ELSE "Ok"

\* the require! checks of the handler, in their order; payer_balance is
\* read after `init` has taken the rent deposit
create_guards(payer_balance, payer, name, receiver, referee, amount, expiration_timestamp, now) ==
    IF ~(Len(name) > 0 /\ Len(name) <= MaxNameLen) THEN "InvalidName"
    ELSE IF ~(payer # receiver) THEN "PayerCannotBeReceiver"
    ELSE IF is_some(referee) /\ ~(unwrap(referee) # payer) THEN "RefereeCannotBePayer"
    ELSE IF is_some(referee) /\ ~(unwrap(referee) # receiver) THEN "RefereeCannotBeReceiver"
    ELSE IF is_some(expiration_timestamp) /\ ~(unwrap(expiration_timestamp) > now)
         THEN "ExpirationMustBeInFuture"
    ELSE IF ~(payer_balance >= amount) THEN "InsufficientFunds"
    ELSE "Ok"

\* the fields the handler writes into the new account
new_agreement(payer, name, receiver, referee, amount, expiration_timestamp) ==
    [ name |-> name, payer |-> payer, receiver |-> receiver,
      referee |-> referee, amount |-> amount,
      expiration_timestamp |-> expiration_timestamp,
      payer_approved |-> FALSE, receiver_approved |-> FALSE,
      payer_requested_cancel |-> FALSE, receiver_requested_cancel |-> FALSE,
      is_completed |-> FALSE, is_cancelled |-> FALSE,
      is_referee_intervened |-> FALSE ]

\* the whole instruction: init, checks, field writes, system transfer
create_payment_agreement(L, payer, name, receiver, referee, amount, expiration_timestamp, now) ==
    LET v == CreatePaymentAgreement(L, payer, name) IN
    IF v # "Ok" THEN Revert(L, v)
    ELSE
      LET key  == <<payer, name>>
          lam1 == add_lamports(sub_lamports(L.lam, Wallet(payer), Rent), key, Rent)
          g    == create_guards(lam1[Wallet(payer)], payer, name, receiver, referee,
                                amount, expiration_timestamp, now)
      IN IF g # "Ok" THEN Revert(L, g)
         ELSE Result("Ok",
                [L.pa EXCEPT ![key] = new_agreement(payer, name, receiver, referee,
                                                    amount, expiration_timestamp)],
                L.init \cup {key},
                add_lamports(sub_lamports(lam1, Wallet(payer), amount), key, amount))

\* ------------------------------------------------------------------------
\* approve_payment_agreement
\* ------------------------------------------------------------------------

\* mutant: the claimed receiver is not compared with the stored one
approve_guards_skip_receiver(ag, signer, payer, receiver) ==
    IF ~(signer = ag.payer \/ signer = ag.receiver) THEN "Unauthorized"
    ELSE IF ~(payer = ag.payer) THEN "InvalidPayer"
    ELSE IF ~(~ag.is_completed) THEN "AgreementAlreadyCompleted"
    ELSE IF ~(~ag.is_cancelled) THEN "AgreementAlreadyCancelled"
    ELSE "Ok"

\* mutant: the check of is_cancelled is missing
approve_guards_skip_cancelled(ag, signer, payer, receiver) ==
    IF ~(signer = ag.payer \/ signer = ag.receiver) THEN "Unauthorized"
    ELSE IF ~(payer = ag.payer) THEN "InvalidPayer"
    ELSE IF ~(receiver = ag.receiver) THEN "InvalidReceiver"
    ELSE IF ~(~ag.is_completed) THEN "AgreementAlreadyCompleted"
    ELSE "Ok"

\* the require! checks of the handler, in their order
approve_guards(ag, signer, payer, receiver) ==
    IF ~(signer = ag.payer \/ signer = ag.receiver) THEN "Unauthorized"
    ELSE IF ~(payer = ag.payer) THEN "InvalidPayer"
    ELSE IF ~(receiver = ag.receiver) THEN "InvalidReceiver"
    ELSE IF ~(~ag.is_completed) THEN "AgreementAlreadyCompleted"
    ELSE IF ~(~ag.is_cancelled) THEN "AgreementAlreadyCancelled"
    ELSE "Ok"

\* mutant: the approval flag of the other role is set
approve_set_flag_swapped(ag, signer) ==
    IF signer = ag.payer THEN [ag EXCEPT !.receiver_approved = TRUE]
    ELSE IF signer = ag.receiver THEN [ag EXCEPT !.payer_approved = TRUE]
    ELSE ag

\* mutant: the signer's approval flag is flipped
approve_set_flag_toggle(ag, signer) ==
    IF signer = ag.payer THEN [ag EXCEPT !.payer_approved = ~@]
    ELSE IF signer = ag.receiver THEN [ag EXCEPT !.receiver_approved = ~@]
    ELSE ag

\* the signer's approval flag is set
approve_set_flag(ag, signer) ==
    IF signer = ag.payer THEN [ag EXCEPT !.payer_approved = TRUE]
    ELSE IF signer = ag.receiver THEN [ag EXCEPT !.receiver_approved = TRUE]
    ELSE ag

\* mutant: one approval is enough
approve_should_complete_either(ag) == ag.payer_approved \/ ag.receiver_approved

\* should_complete
approve_should_complete(ag) == ag.payer_approved /\ ag.receiver_approved

\* the whole instruction
approve_payment_agreement(L, signer, payer, receiver, name) ==
    LET v == ApprovePaymentAgreement(L, payer, name) IN
    IF v # "Ok" THEN Revert(L, v)
    ELSE
      LET key == <<payer, name>>
          g   == approve_guards(L.pa[key], signer, payer, receiver)
      IN IF g # "Ok" THEN Revert(L, g)
         ELSE
           LET ag1 == approve_set_flag(L.pa[key], signer)
               should_complete == approve_should_complete(ag1)
               ag2 == IF should_complete THEN [ag1 EXCEPT !.is_completed = TRUE] ELSE ag1
               transfer_amount == ag2.amount
           IN IF ~should_complete
                THEN Result("Ok", [L.pa EXCEPT ![key] = ag2], L.init, L.lam)
              ELSE IF ~can_sub_lamports(L.lam, key, transfer_amount)
                THEN Revert(L, "ArithmeticOverflow")
              ELSE Result("Ok", [L.pa EXCEPT ![key] = ag2], L.init,
                          add_lamports(sub_lamports(L.lam, key, transfer_amount),
                                       Wallet(receiver), transfer_amount))

\* ------------------------------------------------------------------------
\* cancel_payment_agreement
\* ------------------------------------------------------------------------

\* mutant: the check of is_completed is missing
cancel_guards_skip_completed(ag, signer, payer) ==
    IF ~(signer = ag.payer \/ signer = ag.receiver) THEN "Unauthorized"
    ELSE IF ~(payer = ag.payer) THEN "InvalidPayer"
    ELSE IF ~(~ag.is_cancelled) THEN "AgreementAlreadyCancelled"
    ELSE "Ok"

\* the require! checks of the handler, in their order
cancel_guards(ag, signer, payer) ==
    IF ~(signer = ag.payer \/ signer = ag.receiver) THEN "Unauthorized"
    ELSE IF ~(payer = ag.payer) THEN "InvalidPayer"
    ELSE IF ~(~ag.is_completed) THEN "AgreementAlreadyCompleted"
    ELSE IF ~(~ag.is_cancelled) THEN "AgreementAlreadyCancelled"
    ELSE "Ok"

\* the signer's cancellation request flag is set
cancel_set_flag(ag, signer) ==
    IF signer = ag.payer THEN [ag EXCEPT !.payer_requested_cancel = TRUE]
    ELSE IF signer = ag.receiver THEN [ag EXCEPT !.receiver_requested_cancel = TRUE]
    ELSE ag

\* mutant: an approval blocks the cancellation
cancel_should_cancel_unless_approved(ag) ==
    /\ ag.payer_requested_cancel /\ ag.receiver_requested_cancel
    /\ ~ag.payer_approved /\ ~ag.receiver_approved

\* should_cancel
cancel_should_cancel(ag) == ag.payer_requested_cancel /\ ag.receiver_requested_cancel

\* the whole instruction
cancel_payment_agreement(L, signer, payer, name) ==
    LET v == CancelPaymentAgreement(L, payer, name) IN
    IF v # "Ok" THEN Revert(L, v)
    ELSE
      LET key == <<payer, name>>
          g   == cancel_guards(L.pa[key], signer, payer)
      IN IF g # "Ok" THEN Revert(L, g)
         ELSE
           LET ag1 == cancel_set_flag(L.pa[key], signer)
               should_cancel == cancel_should_cancel(ag1)
               ag2 == IF should_cancel THEN [ag1 EXCEPT !.is_cancelled = TRUE] ELSE ag1
               transfer_amount == ag2.amount
           IN IF ~should_cancel
                THEN Result("Ok", [L.pa EXCEPT ![key] = ag2], L.init, L.lam)
              ELSE IF ~can_sub_lamports(L.lam, key, transfer_amount)
                THEN Revert(L, "ArithmeticOverflow")
              ELSE Result("Ok", [L.pa EXCEPT ![key] = ag2], L.init,
                          add_lamports(sub_lamports(L.lam, key, transfer_amount),
                                       Wallet(payer), transfer_amount))

\* ------------------------------------------------------------------------
\* referee_intervene_complete_payment_agreement
\* ------------------------------------------------------------------------

\* mutant: the signer is not compared with the referee
referee_complete_guards_any_signer(ag, signer, payer, receiver) ==
    IF ~is_some(ag.referee) THEN "Unauthorized"
    ELSE IF ~(payer = ag.payer) THEN "InvalidPayer"
    ELSE IF ~(receiver = ag.receiver) THEN "InvalidReceiver"
    ELSE IF ~(~ag.is_completed) THEN "AgreementAlreadyCompleted"
    ELSE IF ~(~ag.is_cancelled) THEN "AgreementAlreadyCancelled"
    ELSE "Ok"

\* the require! checks of the handler, in their order
referee_complete_guards(ag, signer, payer, receiver) ==
    IF ~is_some(ag.referee) THEN "Unauthorized"
    ELSE IF ~(unwrap(ag.referee) = signer) THEN "Unauthorized"
    ELSE IF ~(payer = ag.payer) THEN "InvalidPayer"
    ELSE IF ~(receiver = ag.receiver) THEN "InvalidReceiver"
    ELSE IF ~(~ag.is_completed) THEN "AgreementAlreadyCompleted"
    ELSE IF ~(~ag.is_cancelled) THEN "AgreementAlreadyCancelled"
    ELSE "Ok"

\* mutant: the referee's completion leaves no trace of the intervention
referee_complete_flags_forget_intervened(ag) ==
    [ag EXCEPT !.is_completed = TRUE]

\* the flags the referee's completion sets
referee_complete_flags(ag) ==
    [ag EXCEPT !.is_completed = TRUE, !.is_referee_intervened = TRUE]

\* the whole instruction
referee_intervene_complete_payment_agreement(L, signer, payer, receiver, name) ==
    LET v == ApprovePaymentAgreement(L, payer, name) IN
    IF v # "Ok" THEN Revert(L, v)
    ELSE
      LET key == <<payer, name>>
          g   == referee_complete_guards(L.pa[key], signer, payer, receiver)
      IN IF g # "Ok" THEN Revert(L, g)
         ELSE
           LET ag1 == referee_complete_flags(L.pa[key])
               transfer_amount == ag1.amount
           IN IF ~can_sub_lamports(L.lam, key, transfer_amount)
                THEN Revert(L, "ArithmeticOverflow")
              ELSE Result("Ok", [L.pa EXCEPT ![key] = ag1], L.init,
                          add_lamports(sub_lamports(L.lam, key, transfer_amount),
                                       Wallet(receiver), transfer_amount))

\* ------------------------------------------------------------------------
\* referee_intervene_cancel_payment_agreement
\* ------------------------------------------------------------------------

\* the require! checks of the handler, in their order
referee_cancel_guards(ag, signer, payer) ==
    IF ~is_some(ag.referee) THEN "Unauthorized"
    ELSE IF ~(unwrap(ag.referee) = signer) THEN "Unauthorized"
    ELSE IF ~(payer = ag.payer) THEN "InvalidPayer"
    ELSE IF ~(~ag.is_completed) THEN "AgreementAlreadyCompleted"
    ELSE IF ~(~ag.is_cancelled) THEN "AgreementAlreadyCancelled"
    ELSE "Ok"

\* mutant: is_referee_intervened is not set
referee_cancel_flags_forget_intervened(ag) == [ag EXCEPT !.is_cancelled = TRUE]

\* the flags the referee's cancellation sets
referee_cancel_flags(ag) ==
    [ag EXCEPT !.is_cancelled = TRUE, !.is_referee_intervened = TRUE]

\* the whole instruction
referee_intervene_cancel_payment_agreement(L, signer, payer, name) ==
    LET v == CancelPaymentAgreement(L, payer, name) IN
    IF v # "Ok" THEN Revert(L, v)
    ELSE
      LET key == <<payer, name>>
          g   == referee_cancel_guards(L.pa[key], signer, payer)
      IN IF g # "Ok" THEN Revert(L, g)
         ELSE
           LET ag1 == referee_cancel_flags(L.pa[key])
               transfer_amount == ag1.amount
           IN IF ~can_sub_lamports(L.lam, key, transfer_amount)
                THEN Revert(L, "ArithmeticOverflow")
              ELSE Result("Ok", [L.pa EXCEPT ![key] = ag1], L.init,
                          add_lamports(sub_lamports(L.lam, key, transfer_amount),
                                       Wallet(payer), transfer_amount))

\* ------------------------------------------------------------------------
\* withdraw_expired_funds
\* ------------------------------------------------------------------------

\* mutant: the checks of is_completed and is_cancelled are missing
withdraw_guards_skip_terminal(ag, payer, now) ==
    IF ~(payer = ag.payer) THEN "Unauthorized"
    ELSE IF ~is_some(ag.expiration_timestamp) THEN "PaymentAgreementNotExpired"
    ELSE IF ~(now > unwrap(ag.expiration_timestamp)) THEN "PaymentAgreementNotExpired"
    ELSE "Ok"

\* mutant: the reclaim is allowed at the expiration itself
withdraw_guards_at_expiration(ag, payer, now) ==
    IF ~(payer = ag.payer) THEN "Unauthorized"
    ELSE IF ~is_some(ag.expiration_timestamp) THEN "PaymentAgreementNotExpired"
    ELSE IF ~(now >= unwrap(ag.expiration_timestamp)) THEN "PaymentAgreementNotExpired"
    ELSE IF ~(~ag.is_completed) THEN "AgreementAlreadyCompleted"
    ELSE IF ~(~ag.is_cancelled) THEN "AgreementAlreadyCancelled"
    ELSE "Ok"

\* the require! checks of the handler, in their order
withdraw_guards(ag, payer, now) ==
    IF ~(payer = ag.payer) THEN "Unauthorized"
    ELSE IF ~is_some(ag.expiration_timestamp) THEN "PaymentAgreementNotExpired"
    ELSE IF ~(now > unwrap(ag.expiration_timestamp)) THEN "PaymentAgreementNotExpired"
    ELSE IF ~(~ag.is_completed) THEN "AgreementAlreadyCompleted"
    ELSE IF ~(~ag.is_cancelled) THEN "AgreementAlreadyCancelled"
    ELSE "Ok"

\* the whole instruction: checks, refund of the amount, then `close = payer`
withdraw_expired_funds(L, payer, name, now) ==
    LET v == WithdrawExpiredFunds(L, payer, name) IN
    IF v # "Ok" THEN Revert(L, v)
    ELSE
      LET key == <<payer, name>>
          g   == withdraw_guards(L.pa[key], payer, now)
      IN IF g # "Ok" THEN Revert(L, g)
         ELSE
           LET transfer_amount == L.pa[key].amount
           IN IF ~can_sub_lamports(L.lam, key, transfer_amount)
                THEN Revert(L, "ArithmeticOverflow")
              ELSE close_account(
                     Result("Ok", L.pa, L.init,
                            add_lamports(sub_lamports(L.lam, key, transfer_amount),
                                         Wallet(payer), transfer_amount)),
                     key, payer)

\* ------------------------------------------------------------------------
\* The state machine
\* ------------------------------------------------------------------------

Init ==
    /\ payment_agreement = [k \in Keys |-> ZeroAgreement]
    /\ initialized = {}
    /\ lamports = [a \in Accounts |-> IF a = Wallet("P") THEN PayerFunds ELSE 0]
    /\ clock = 0

\* amounts a caller may pass: everything the wallet can fund, and more
Amounts == 0..PayerFunds

\* timestamps a caller may pass
Timestamps == 0..MaxTime

\* In every action the transaction's account validation comes first; it
\* reads only the payer and the name, and when it rejects them the
\* transaction is reverted whatever the other arguments are.

Create ==
    \E payer \in Ids, name \in Names :
        IF CreatePaymentAgreement(Ledger, payer, name) # "Ok"
        THEN UNCHANGED vars
        ELSE \E receiver \in Ids, referee \in Option(Ids), amount \in Amounts,
                expiration_timestamp \in Option(Timestamps) :
                LET R == create_payment_agreement(Ledger, payer, name, receiver, referee,
                                                  amount, expiration_timestamp, clock)
                IN /\ payment_agreement' = R.pa
                   /\ initialized' = R.init
                   /\ lamports' = R.lam
                   /\ UNCHANGED clock

Approve ==
    \E payer \in Ids, name \in Names :
        IF ApprovePaymentAgreement(Ledger, payer, name) # "Ok"
        THEN UNCHANGED vars
        ELSE \E signer \in Ids, receiver \in Ids :
                LET R == approve_payment_agreement(Ledger, signer, payer, receiver, name)
                IN /\ payment_agreement' = R.pa
                   /\ initialized' = R.init
                   /\ lamports' = R.lam
                   /\ UNCHANGED clock

Cancel ==
    \E payer \in Ids, name \in Names :
        IF CancelPaymentAgreement(Ledger, payer, name) # "Ok"
        THEN UNCHANGED vars
        ELSE \E signer \in Ids :
                LET R == cancel_payment_agreement(Ledger, signer, payer, name)
                IN /\ payment_agreement' = R.pa
                   /\ initialized' = R.init
                   /\ lamports' = R.lam
                   /\ UNCHANGED clock

RefereeComplete ==
    \E payer \in Ids, name \in Names :
        IF ApprovePaymentAgreement(Ledger, payer, name) # "Ok"
        THEN UNCHANGED vars
        ELSE \E signer \in Ids, receiver \in Ids :
                LET R == referee_intervene_complete_payment_agreement(
                             Ledger, signer, payer, receiver, name)
                IN /\ payment_agreement' = R.pa
                   /\ initialized' = R.init
                   /\ lamports' = R.lam
                   /\ UNCHANGED clock

RefereeCancel ==
    \E payer \in Ids, name \in Names :
        IF CancelPaymentAgreement(Ledger, payer, name) # "Ok"
        THEN UNCHANGED vars
        ELSE \E signer \in Ids :
                LET R == referee_intervene_cancel_payment_agreement(
                             Ledger, signer, payer, name)
                IN /\ payment_agreement' = R.pa
                   /\ initialized' = R.init
                   /\ lamports' = R.lam
                   /\ UNCHANGED clock

WithdrawExpired ==
    \E payer \in Ids, name \in Names :
        LET R == withdraw_expired_funds(Ledger, payer, name, clock)
        IN /\ payment_agreement' = R.pa
           /\ initialized' = R.init
           /\ lamports' = R.lam
           /\ UNCHANGED clock

\* the clock advances
Tick ==
    /\ clock < MaxTime
    /\ clock' = clock + 1
    /\ UNCHANGED <<payment_agreement, initialized, lamports>>

Next ==
    \/ Create
    \/ Approve
    \/ Cancel
    \/ RefereeComplete
    \/ RefereeCancel
    \/ WithdrawExpired
    \/ Tick

Spec == Init /\ [][Next]_vars

\* ------------------------------------------------------------------------
\* Vocabulary of the properties
\* ------------------------------------------------------------------------

\* the agreement is neither completed nor cancelled
IsOpen(ag) == ~ag.is_completed /\ ~ag.is_cancelled

\* the agreement is completed or cancelled
IsTerminal(ag) == ag.is_completed \/ ag.is_cancelled

\* lamports an address holds for its agreement, the rent deposit excluded
Escrowed(lam, init, k) == IF k \in init THEN lam[k] - Rent ELSE lam[k]

\* the transaction left the ledger as it was
LedgerUnchanged(R) ==
    /\ R.pa = payment_agreement
    /\ R.init = initialized
    /\ R.lam = lamports

\* lam with n lamports moved from account a to account b
Moved(lam, a, b, n) == [lam EXCEPT ![a] = @ - n, ![b] = @ + n]

\* ------------------------------------------------------------------------
\* C1
\* ------------------------------------------------------------------------

\* C1: in every reachable state no agreement has is_completed and
\* is_cancelled both true.
C1_NeverCompletedAndCancelled ==
    \A k \in initialized :
        ~(payment_agreement[k].is_completed /\ payment_agreement[k].is_cancelled)

\* a cancelled agreement one party had approved before
C1_Witness ==
    \E k \in initialized :
        /\ payment_agreement[k].is_cancelled
        /\ payment_agreement[k].payer_approved \/ payment_agreement[k].receiver_approved

\* ------------------------------------------------------------------------
\* C2
\* ------------------------------------------------------------------------

\* C2: once an agreement is completed or cancelled, no step changes any of
\* its fields, destroys it, or changes the lamports of its account.
C2_TerminalIsFinal ==
    [][ \A k \in Keys :
          (k \in initialized /\ IsTerminal(payment_agreement[k]))
            => /\ k \in initialized'
               /\ payment_agreement'[k] = payment_agreement[k]
               /\ lamports'[k] = lamports[k] ]_vars

\* a terminal agreement whose expiration has passed, with consent flags set
C2_Witness ==
    \E k \in initialized :
        /\ IsTerminal(payment_agreement[k])
        /\ is_some(payment_agreement[k].expiration_timestamp)
        /\ clock > unwrap(payment_agreement[k].expiration_timestamp)
        /\ is_some(payment_agreement[k].referee)

\* ------------------------------------------------------------------------
\* C3
\* ------------------------------------------------------------------------

\* the escrowed lamports are the amount while open and 0 once terminal
C3_CustodyMatchesState ==
    \A k \in initialized :
        Escrowed(lamports, initialized, k)
          = IF IsOpen(payment_agreement[k]) THEN payment_agreement[k].amount ELSE 0

\* a step moves nothing, or the full amount, into or out of an account
C3_AllOrNothing ==
    \A k \in Keys :
        LET amount == IF k \in initialized THEN payment_agreement[k].amount
                      ELSE payment_agreement'[k].amount
            moved  == Escrowed(lamports', initialized', k)
                        - Escrowed(lamports, initialized, k)
        IN moved \in {0, amount, 0 - amount}

\* C3: for every existing agreement the lamports escrowed in its account
\* (rent deposit excluded) equal the amount while it is open and 0 once it
\* is completed or cancelled, and every step moves 0 or the full amount.
C3_CustodyAllOrNothing ==
    []C3_CustodyMatchesState /\ [][C3_AllOrNothing]_vars

\* a terminal agreement of a positive amount whose account holds the rent only
C3_Witness ==
    \E k \in initialized :
        /\ IsTerminal(payment_agreement[k])
        /\ payment_agreement[k].amount > 0
        /\ lamports[k] = Rent

\* ------------------------------------------------------------------------
\* C4
\* ------------------------------------------------------------------------

\* C4: a successful approve sets only the approval flag of the signer's
\* role; when both approval flags are then true the same transaction sets
\* is_completed and moves exactly amount from the agreement's account to the
\* stored receiver; otherwise it moves no lamports and is_completed,
\* is_cancelled and is_referee_intervened stay false.
C4_ApproveEffect ==
    \A signer \in Ids, payer \in Ids, receiver \in Ids, name \in SeedNames :
        LET key  == <<payer, name>>
            ag   == payment_agreement[key]
            R    == approve_payment_agreement(Ledger, signer, payer, receiver, name)
            flag == [ag EXCEPT !.payer_approved = @ \/ signer = ag.payer,
                               !.receiver_approved = @ \/ signer = ag.receiver]
        IN R.err = "Ok" =>
             /\ IsOpen(ag)
             /\ (signer = ag.payer) # (signer = ag.receiver)
             /\ R.init = initialized
             /\ IF flag.payer_approved /\ flag.receiver_approved
                THEN /\ R.pa = [payment_agreement EXCEPT
                                  ![key] = [flag EXCEPT !.is_completed = TRUE]]
                     /\ R.lam = Moved(lamports, key, Wallet(ag.receiver), ag.amount)
                ELSE /\ R.pa = [payment_agreement EXCEPT ![key] = flag]
                     /\ R.lam = lamports
                     /\ ~R.pa[key].is_completed
                     /\ ~R.pa[key].is_cancelled
                     /\ ~R.pa[key].is_referee_intervened

\* an agreement of a positive amount completed by the two approvals, paid
\* out to its receiver
C4_Witness ==
    \E k \in initialized :
        LET ag == payment_agreement[k] IN
        /\ ag.is_completed /\ ~ag.is_referee_intervened
        /\ ag.payer_approved /\ ag.receiver_approved
        /\ ag.amount > 0
        /\ lamports[Wallet(ag.receiver)] = ag.amount
        /\ lamports[k] = Rent

\* ------------------------------------------------------------------------
\* C5
\* ------------------------------------------------------------------------

\* C5: a successful cancel sets only the cancellation request flag of the
\* signer's role; when both request flags are then true the same
\* transaction sets is_cancelled and returns exactly amount to the stored
\* payer, whatever the approval flags are; otherwise it moves no lamports
\* and the agreement stays open.
C5_CancelEffect ==
    \A signer \in Ids, payer \in Ids, name \in SeedNames :
        LET key  == <<payer, name>>
            ag   == payment_agreement[key]
            R    == cancel_payment_agreement(Ledger, signer, payer, name)
            flag == [ag EXCEPT !.payer_requested_cancel = @ \/ signer = ag.payer,
                               !.receiver_requested_cancel = @ \/ signer = ag.receiver]
        IN R.err = "Ok" =>
             /\ IsOpen(ag)
             /\ (signer = ag.payer) # (signer = ag.receiver)
             /\ R.init = initialized
             /\ IF flag.payer_requested_cancel /\ flag.receiver_requested_cancel
                THEN /\ R.pa = [payment_agreement EXCEPT
                                  ![key] = [flag EXCEPT !.is_cancelled = TRUE]]
                     /\ R.lam = Moved(lamports, key, Wallet(ag.payer), ag.amount)
                ELSE /\ R.pa = [payment_agreement EXCEPT ![key] = flag]
                     /\ R.lam = lamports
                     /\ IsOpen(R.pa[key])

\* an agreement of a positive amount cancelled by the two requests after one
\* party had approved, refunded to its payer
C5_Witness ==
    \E k \in initialized :
        LET ag == payment_agreement[k] IN
        /\ ag.is_cancelled /\ ~ag.is_referee_intervened
        /\ ag.payer_requested_cancel /\ ag.receiver_requested_cancel
        /\ ag.receiver_approved
        /\ ag.amount > 0
        /\ lamports[Wallet(ag.payer)] = PayerFunds - Rent
        /\ lamports[k] = Rent

\* ------------------------------------------------------------------------
\* C6
\* ------------------------------------------------------------------------

\* C6: on an existing agreement, referee_complete and referee_cancel succeed
\* only for a signer equal to the stored referee; when the agreement has no
\* referee or the signer is anyone else (the payer and the receiver
\* included) the call fails with Unauthorized and leaves the ledger as it
\* was.
C6_RefereeOnly ==
    \A signer \in Ids, payer \in Ids, receiver \in Ids, name \in SeedNames :
        LET key == <<payer, name>>
            ag  == payment_agreement[key]
            Rc  == referee_intervene_complete_payment_agreement(
                       Ledger, signer, payer, receiver, name)
            Rx  == referee_intervene_cancel_payment_agreement(
                       Ledger, signer, payer, name)
            is_referee == is_some(ag.referee) /\ unwrap(ag.referee) = signer
        IN key \in initialized =>
             /\ Rc.err = "Ok" => is_referee
             /\ Rx.err = "Ok" => is_referee
             /\ ~is_referee =>
                  /\ Rc.err = "Unauthorized" /\ LedgerUnchanged(Rc)
                  /\ Rx.err = "Unauthorized" /\ LedgerUnchanged(Rx)

\* an open agreement with a referee on which the payer's referee_complete
\* and the receiver's referee_cancel are both refused
C6_Witness ==
    \E k \in initialized :
        LET ag == payment_agreement[k] IN
        /\ IsOpen(ag)
        /\ is_some(ag.referee)
        /\ referee_intervene_complete_payment_agreement(
               Ledger, ag.payer, ag.payer, ag.receiver, ag.name).err = "Unauthorized"
        /\ referee_intervene_cancel_payment_agreement(
               Ledger, ag.receiver, ag.payer, ag.name).err = "Unauthorized"

\* ------------------------------------------------------------------------
\* C7
\* ------------------------------------------------------------------------

\* C7: on an open agreement with a referee, whatever the four consent flags
\* and the clock are, one referee_complete by the referee with the stored
\* payer and receiver succeeds, sets is_completed and is_referee_intervened
\* and moves exactly amount to the stored receiver; one referee_cancel
\* succeeds, sets is_cancelled and is_referee_intervened and returns exactly
\* amount to the stored payer. Neither changes a consent flag.
C7_RefereeOverride ==
    \A key \in initialized :
        LET ag == payment_agreement[key] IN
        (IsOpen(ag) /\ is_some(ag.referee)) =>
          LET Rc == referee_intervene_complete_payment_agreement(
                        Ledger, unwrap(ag.referee), ag.payer, ag.receiver, key[2])
              Rx == referee_intervene_cancel_payment_agreement(
                        Ledger, unwrap(ag.referee), ag.payer, key[2])
          IN /\ key[1] = ag.payer
             /\ Rc.err = "Ok"
             /\ Rc.init = initialized
             /\ Rc.pa = [payment_agreement EXCEPT
                           ![key] = [ag EXCEPT !.is_completed = TRUE,
                                               !.is_referee_intervened = TRUE]]
             /\ Rc.lam = Moved(lamports, key, Wallet(ag.receiver), ag.amount)
             /\ Rx.err = "Ok"
             /\ Rx.init = initialized
             /\ Rx.pa = [payment_agreement EXCEPT
                           ![key] = [ag EXCEPT !.is_cancelled = TRUE,
                                               !.is_referee_intervened = TRUE]]
             /\ Rx.lam = Moved(lamports, key, Wallet(ag.payer), ag.amount)

\* an agreement the referee completed past its expiration although the
\* payer had asked to cancel and the receiver had approved
C7_Witness ==
    \E k \in initialized :
        LET ag == payment_agreement[k] IN
        /\ ag.is_completed /\ ag.is_referee_intervened
        /\ ag.payer_requested_cancel /\ ag.receiver_approved
        /\ ~ag.payer_approved /\ ~ag.receiver_requested_cancel
        /\ ag.amount > 0
        /\ lamports[Wallet(ag.receiver)] = ag.amount
        /\ is_some(ag.expiration_timestamp)
        /\ clock > unwrap(ag.expiration_timestamp)

\* ------------------------------------------------------------------------
\* C8
\* ------------------------------------------------------------------------

\* C8: reclaim_expired on an existing agreement succeeds only when the
\* caller is the stored payer, an expiration is set and the clock is
\* strictly greater than it; at a clock equal to or below the expiration,
\* or without an expiration, it fails with PaymentAgreementNotExpired and
\* leaves the ledger as it was.
C8_ReclaimOnlyAfterExpiration ==
    \A payer \in Ids, name \in SeedNames :
        LET key == <<payer, name>>
            ag  == payment_agreement[key]
            R   == withdraw_expired_funds(Ledger, payer, name, clock)
            expired == /\ is_some(ag.expiration_timestamp)
                       /\ clock > unwrap(ag.expiration_timestamp)
        IN key \in initialized =>
             /\ R.err = "Ok" => (payer = ag.payer /\ expired)
             /\ ~expired => (R.err = "PaymentAgreementNotExpired" /\ LedgerUnchanged(R))

\* an agreement reclaimed exactly at its expiration: refused
C8_Witness ==
    \E k \in initialized :
        LET ag == payment_agreement[k] IN
        /\ IsOpen(ag)
        /\ ag.expiration_timestamp = Some(clock)
        /\ withdraw_expired_funds(Ledger, ag.payer, ag.name, clock).err
             = "PaymentAgreementNotExpired"

\* ------------------------------------------------------------------------
\* C9
\* ------------------------------------------------------------------------

\* every later call on the address of a withdrawn agreement fails and
\* leaves the ledger L as it is
C9_AllCallsFail(L, payer, name, now) ==
    /\ \A signer \in Ids, receiver \in Ids :
          /\ approve_payment_agreement(L, signer, payer, receiver, name)
               = Revert(L, "AccountNotInitialized")
          /\ referee_intervene_complete_payment_agreement(L, signer, payer, receiver, name)
               = Revert(L, "AccountNotInitialized")
    /\ \A signer \in Ids :
          /\ cancel_payment_agreement(L, signer, payer, name)
               = Revert(L, "AccountNotInitialized")
          /\ referee_intervene_cancel_payment_agreement(L, signer, payer, name)
               = Revert(L, "AccountNotInitialized")
    /\ \A t \in now..MaxTime :
          withdraw_expired_funds(L, payer, name, t) = Revert(L, "AccountNotInitialized")

\* C9: a successful reclaim_expired, whatever the four consent flags are,
\* returns exactly amount (and, closing the account, its rent deposit) to
\* the stored payer and destroys the agreement without is_completed or
\* is_cancelled ever being set; after it every approve, cancel,
\* referee_complete, referee_cancel and reclaim_expired on that address
\* fails and moves nothing.
C9_ReclaimDestroys ==
    \A payer \in Ids, name \in SeedNames :
        LET key == <<payer, name>>
            ag  == payment_agreement[key]
            R   == withdraw_expired_funds(Ledger, payer, name, clock)
        IN R.err = "Ok" =>
             /\ IsOpen(ag)
             /\ R.init = initialized \ {key}
             /\ R.pa = [payment_agreement EXCEPT ![key] = ZeroAgreement]
             /\ IsOpen(R.pa[key])
             /\ R.lam = Moved(lamports, key, Wallet(ag.payer), ag.amount + Rent)
             /\ R.lam[key] = 0
             /\ C9_AllCallsFail([pa |-> R.pa, init |-> R.init, lam |-> R.lam],
                                payer, name, clock)

\* an expired open agreement of a positive amount, both kinds of consent
\* flag set, whose reclaim succeeds
C9_Witness ==
    \E k \in initialized :
        LET ag == payment_agreement[k] IN
        /\ ag.receiver_approved /\ ag.payer_requested_cancel
        /\ ag.amount > 0
        /\ withdraw_expired_funds(Ledger, ag.payer, ag.name, clock).err = "Ok"

\* ------------------------------------------------------------------------
\* C10
\* ------------------------------------------------------------------------

\* C10: a successful create leaves at the address of (payer, name) an open
\* agreement that holds the given receiver, referee, amount and expiration
\* with all seven flags false, takes exactly amount (and the rent deposit
\* of the new account) from the payer and puts it into the new account;
\* and a create that succeeds with amount 0 succeeds with every amount up
\* to what the payer has left after the rent deposit.
C10_CreateEffect ==
    \A payer \in Ids, name \in Names :
        CreatePaymentAgreement(Ledger, payer, name) = "Ok" =>
          \A receiver \in Ids, referee \in Option(Ids), amount \in Amounts,
             expiration_timestamp \in Option(Timestamps) :
              LET key == <<payer, name>>
                  R   == create_payment_agreement(Ledger, payer, name, receiver, referee,
                                                  amount, expiration_timestamp, clock)
                  R0  == create_payment_agreement(Ledger, payer, name, receiver, referee,
                                                  0, expiration_timestamp, clock)
                  ag  == R.pa[key]
              IN /\ R.err = "Ok" =>
                      /\ key \notin initialized
                      /\ R.init = initialized \cup {key}
                      /\ R.pa = [payment_agreement EXCEPT ![key] = ag]
                      /\ ag.name = name /\ ag.payer = payer
                      /\ ag.receiver = receiver /\ ag.referee = referee
                      /\ ag.amount = amount
                      /\ ag.expiration_timestamp = expiration_timestamp
                      /\ ~ag.payer_approved /\ ~ag.receiver_approved
                      /\ ~ag.payer_requested_cancel /\ ~ag.receiver_requested_cancel
                      /\ ~ag.is_completed /\ ~ag.is_cancelled
                      /\ ~ag.is_referee_intervened
                      /\ R.lam = Moved(lamports, Wallet(payer), key, amount + Rent)
                      /\ R.lam[key] = Rent + amount
                 /\ (R0.err = "Ok" /\ amount <= lamports[Wallet(payer)] - Rent)
                      => R.err = "Ok"

\* a fresh agreement that took all the payer had left after the rent
C10_Witness ==
    \E k \in initialized :
        LET ag == payment_agreement[k] IN
        /\ ag = new_agreement(ag.payer, ag.name, ag.receiver, ag.referee, ag.amount,
                              ag.expiration_timestamp)
        /\ ag.amount > 0
        /\ lamports[k] = Rent + ag.amount
        /\ lamports[Wallet(ag.payer)] = 0

\* ------------------------------------------------------------------------
\* C11
\* ------------------------------------------------------------------------

\* the ledger a step leaves
LedgerNext == [pa |-> payment_agreement', init |-> initialized', lam |-> lamports']

\* the ledger a transaction returns
LedgerOf(R) == [pa |-> R.pa, init |-> R.init, lam |-> R.lam]

\* the error the stated order of checks gives: that of the first check
\* violated, the balance being what the payer has left after the rent
C11_FirstViolated(available, payer, name, receiver, referee, amount, expiration_timestamp, now) ==
    IF Len(name) < 1 \/ Len(name) > 32 THEN "InvalidName"
    ELSE IF payer = receiver THEN "PayerCannotBeReceiver"
    ELSE IF referee = Some(payer) THEN "RefereeCannotBePayer"
    ELSE IF referee = Some(receiver) THEN "RefereeCannotBeReceiver"
    ELSE IF is_some(expiration_timestamp) /\ unwrap(expiration_timestamp) <= now
         THEN "ExpirationMustBeInFuture"
    ELSE IF available < amount THEN "InsufficientFunds"
    ELSE "Ok"

\* C11: a create by a payer that can fund the rent deposit, on an unused
\* address, returns the error of the first violated check in the order
\* InvalidName (name length outside 1..32), PayerCannotBeReceiver,
\* RefereeCannotBePayer, RefereeCannotBeReceiver, ExpirationMustBeInFuture
\* (expiration <= now), InsufficientFunds; and a failed create leaves no
\* agreement at the address and every balance as it was.
C11_CreateValidationOrder ==
    \A payer \in Ids, name \in Names :
        (<<payer, name>> \notin initialized /\ lamports[Wallet(payer)] >= Rent) =>
          \A receiver \in Ids, referee \in Option(Ids), amount \in Amounts,
             expiration_timestamp \in Option(Timestamps) :
              LET R == create_payment_agreement(Ledger, payer, name, receiver, referee,
                                                amount, expiration_timestamp, clock)
              IN /\ R.err = C11_FirstViolated(lamports[Wallet(payer)] - Rent, payer, name,
                                              receiver, referee, amount,
                                              expiration_timestamp, clock)
                 /\ R.err # "Ok" => (LedgerUnchanged(R) /\ <<payer, name>> \notin R.init)

\* the same for the names an address can be derived from (at most 32 bytes)
C11_OrderWithinSeedLimit ==
    \A payer \in Ids, name \in SeedNames :
        (<<payer, name>> \notin initialized /\ lamports[Wallet(payer)] >= Rent) =>
          \A receiver \in Ids, referee \in Option(Ids), amount \in Amounts,
             expiration_timestamp \in Option(Timestamps) :
              LET R == create_payment_agreement(Ledger, payer, name, receiver, referee,
                                                amount, expiration_timestamp, clock)
              IN /\ R.err = C11_FirstViolated(lamports[Wallet(payer)] - Rent, payer, name,
                                              receiver, referee, amount,
                                              expiration_timestamp, clock)
                 /\ R.err # "Ok" => (LedgerUnchanged(R) /\ <<payer, name>> \notin R.init)

\* ------------------------------------------------------------------------
\* C12
\* ------------------------------------------------------------------------

\* the roles of every existing agreement are distinct
C12_RolesDistinct ==
    \A k \in initialized :
        LET ag == payment_agreement[k] IN
        /\ ag.payer # ag.receiver
        /\ is_some(ag.referee) =>
             (unwrap(ag.referee) # ag.payer /\ unwrap(ag.referee) # ag.receiver)

\* a step that creates an agreement gives it an expiration after the clock
\* of that step; a step on an existing agreement keeps its payer, receiver,
\* referee and expiration
C12_RolesAndExpirationFixed ==
    \A k \in Keys :
        /\ (k \notin initialized /\ k \in initialized') =>
             (is_some(payment_agreement'[k].expiration_timestamp)
                => unwrap(payment_agreement'[k].expiration_timestamp) > clock)
        /\ (k \in initialized /\ k \in initialized') =>
             /\ payment_agreement'[k].payer = payment_agreement[k].payer
             /\ payment_agreement'[k].receiver = payment_agreement[k].receiver
             /\ payment_agreement'[k].referee = payment_agreement[k].referee
             /\ payment_agreement'[k].expiration_timestamp
                  = payment_agreement[k].expiration_timestamp

\* C12: in every reachable state every existing agreement has payer #
\* receiver and a referee, when present, different from both; an expiration,
\* when present, was strictly greater than the clock at creation; and no
\* later step changes payer, receiver, referee or expiration.
C12_RolesAndExpiration ==
    []C12_RolesDistinct /\ [][C12_RolesAndExpirationFixed]_vars

\* an agreement with a referee and an expiration that post-creation calls
\* have changed, seen when the clock has reached its end
C12_Witness ==
    \E k \in initialized :
        LET ag == payment_agreement[k] IN
        /\ is_some(ag.referee) /\ is_some(ag.expiration_timestamp)
        /\ ag.payer_approved /\ ag.receiver_requested_cancel
        /\ clock = MaxTime

\* ------------------------------------------------------------------------
\* C13
\* ------------------------------------------------------------------------

\* the errors the five post-creation handlers return
C13_HandlerErrors ==
    {"Unauthorized", "InvalidPayer", "InvalidReceiver", "AgreementAlreadyCompleted",
     "AgreementAlreadyCancelled", "PaymentAgreementNotExpired"}

\* a transaction on the agreement ag at key: when it fails, it fails with
\* one of the handlers' errors and changes nothing; when it succeeds, the
\* only wallets whose lamports change are the stored payer and receiver
C13_FailsCleanly(R, key, ag) ==
    /\ R.err # "Ok" => (R.err \in C13_HandlerErrors /\ LedgerUnchanged(R))
    /\ R.err = "Ok" =>
         \A a \in Accounts \ {key, Wallet(ag.payer), Wallet(ag.receiver)} :
             R.lam[a] = lamports[a]

\* the five transactions of one choice of arguments on an existing agreement
C13_AllFailCleanly(signer, payer, receiver, name) ==
    LET key == <<payer, name>>
        ag  == payment_agreement[key]
    IN /\ C13_FailsCleanly(approve_payment_agreement(Ledger, signer, payer, receiver, name),
                           key, ag)
       /\ C13_FailsCleanly(cancel_payment_agreement(Ledger, signer, payer, name), key, ag)
       /\ C13_FailsCleanly(referee_intervene_complete_payment_agreement(
                               Ledger, signer, payer, receiver, name), key, ag)
       /\ C13_FailsCleanly(referee_intervene_cancel_payment_agreement(
                               Ledger, signer, payer, name), key, ag)
       /\ signer = payer =>
            C13_FailsCleanly(withdraw_expired_funds(Ledger, payer, name, clock), key, ag)

\* C13 as stated: every failing call on an existing agreement changes
\* nothing, and an approve or referee_complete whose claimed receiver is not
\* the stored receiver fails with InvalidReceiver.
C13_WrongReceiverIsInvalidReceiver ==
    \A signer \in Ids, payer \in Ids, receiver \in Ids, name \in SeedNames :
        LET key == <<payer, name>>
            ag  == payment_agreement[key]
        IN key \in initialized =>
             /\ C13_AllFailCleanly(signer, payer, receiver, name)
             /\ receiver # ag.receiver =>
                  /\ approve_payment_agreement(Ledger, signer, payer, receiver, name).err
                       = "InvalidReceiver"
                  /\ referee_intervene_complete_payment_agreement(
                         Ledger, signer, payer, receiver, name).err = "InvalidReceiver"

\* C13 amended: every failing call on an existing agreement changes nothing;
\* an approve or referee_complete whose claimed receiver is not the stored
\* receiver always fails, with InvalidReceiver when the signer passes the
\* Unauthorized check that comes first (payer or receiver for approve, the
\* referee for referee_complete) and with Unauthorized otherwise; a
\* successful call changes no wallet but the stored payer's and receiver's.
C13_FailuresChangeNothing ==
    \A signer \in Ids, payer \in Ids, receiver \in Ids, name \in SeedNames :
        LET key == <<payer, name>>
            ag  == payment_agreement[key]
        IN key \in initialized =>
             /\ C13_AllFailCleanly(signer, payer, receiver, name)
             /\ receiver # ag.receiver =>
                  /\ approve_payment_agreement(Ledger, signer, payer, receiver, name).err
                       = IF signer = ag.payer \/ signer = ag.receiver
                         THEN "InvalidReceiver" ELSE "Unauthorized"
                  /\ referee_intervene_complete_payment_agreement(
                         Ledger, signer, payer, receiver, name).err
                       = IF ag.referee = Some(signer)
                         THEN "InvalidReceiver" ELSE "Unauthorized"

\* an open agreement of a positive amount the receiver has approved, on
\* which the payer's approve naming another receiver is refused with
\* InvalidReceiver and the referee's referee_complete likewise
C13_Witness ==
    \E k \in initialized, other \in Ids :
        LET ag == payment_agreement[k] IN
        /\ IsOpen(ag) /\ ag.receiver_approved /\ ag.amount > 0
        /\ is_some(ag.referee)
        /\ other \notin {ag.payer, ag.receiver}
        /\ approve_payment_agreement(Ledger, ag.payer, ag.payer, other, ag.name).err
             = "InvalidReceiver"
        /\ referee_intervene_complete_payment_agreement(
               Ledger, unwrap(ag.referee), ag.payer, other, ag.name).err = "InvalidReceiver"

\* ------------------------------------------------------------------------
\* C14
\* ------------------------------------------------------------------------

\* approve by signer on the agreement at key, with the stored payer and
\* receiver, from the ledger L
C14_Approve(L, key, signer) ==
    approve_payment_agreement(L, signer, L.pa[key].payer, L.pa[key].receiver, key[2])

\* from an open agreement without approvals, payer then receiver and
\* receiver then payer end in the same ledger: completed, the receiver paid
C14_Commutes(key) ==
    LET ag == payment_agreement[key]
        PR == C14_Approve(LedgerOf(C14_Approve(Ledger, key, ag.payer)), key, ag.receiver)
        RP == C14_Approve(LedgerOf(C14_Approve(Ledger, key, ag.receiver)), key, ag.payer)
    IN (~ag.payer_approved /\ ~ag.receiver_approved) =>
         /\ PR.err = "Ok" /\ RP.err = "Ok"
         /\ LedgerOf(PR) = LedgerOf(RP)
         /\ PR.pa[key].is_completed
         /\ PR.lam[Wallet(ag.receiver)] = lamports[Wallet(ag.receiver)] + ag.amount
         /\ PR.lam[key] = lamports[key] - ag.amount

\* C14 as stated: on an open agreement a second approve by the same role
\* succeeds and changes nothing, and the two orders of approval commute.
C14_SecondApproveSucceeds ==
    \A key \in initialized :
        LET ag == payment_agreement[key] IN
        IsOpen(ag) =>
          /\ \A signer \in {ag.payer, ag.receiver} :
                LET R1 == C14_Approve(Ledger, key, signer)
                    R2 == C14_Approve(LedgerOf(R1), key, signer)
                IN /\ R1.err = "Ok"
                   /\ R2.err = "Ok"
                   /\ LedgerOf(R2) = LedgerOf(R1)
          /\ C14_Commutes(key)

\* C14 amended: on an open agreement a second approve by the same role
\* leaves the ledger as the first left it; it succeeds when the agreement
\* is still open after the first and fails with AgreementAlreadyCompleted
\* when the first completed it. The two orders of approval commute.
C14_ApproveIdempotentCommutative ==
    \A key \in initialized :
        LET ag == payment_agreement[key] IN
        IsOpen(ag) =>
          /\ \A signer \in {ag.payer, ag.receiver} :
                LET R1 == C14_Approve(Ledger, key, signer)
                    R2 == C14_Approve(LedgerOf(R1), key, signer)
                IN /\ R1.err = "Ok"
                   /\ R2.err = IF IsOpen(R1.pa[key]) THEN "Ok"
                               ELSE "AgreementAlreadyCompleted"
                   /\ LedgerOf(R2) = LedgerOf(R1)
          /\ C14_Commutes(key)

\* an open agreement of a positive amount the payer has approved: approving
\* again succeeds and changes nothing, the receiver's approval completes it
C14_Witness ==
    \E k \in initialized :
        LET ag == payment_agreement[k] IN
        /\ IsOpen(ag) /\ ag.payer_approved /\ ~ag.receiver_approved
        /\ ag.amount > 0
        /\ C14_Approve(Ledger, k, ag.payer) = Revert(Ledger, "Ok")
        /\ C14_Approve(Ledger, k, ag.receiver).pa[k].is_completed

\* ------------------------------------------------------------------------
\* C15
\* ------------------------------------------------------------------------

\* the terminal error of an agreement
C15_TerminalError(ag) ==
    IF ag.is_completed THEN "AgreementAlreadyCompleted" ELSE "AgreementAlreadyCancelled"

\* C15 as stated: on a completed agreement every approve, cancel,
\* referee_complete and referee_cancel, by any signer, fails with
\* AgreementAlreadyCompleted; on a cancelled one with
\* AgreementAlreadyCancelled.
C15_TerminalErrorForAnyCaller ==
    \A key \in initialized, signer \in Ids :
        LET ag == payment_agreement[key] IN
        IsTerminal(ag) =>
          /\ approve_payment_agreement(Ledger, signer, ag.payer, ag.receiver, key[2]).err
               = C15_TerminalError(ag)
          /\ cancel_payment_agreement(Ledger, signer, ag.payer, key[2]).err
               = C15_TerminalError(ag)
          /\ referee_intervene_complete_payment_agreement(
                 Ledger, signer, ag.payer, ag.receiver, key[2]).err = C15_TerminalError(ag)
          /\ referee_intervene_cancel_payment_agreement(
                 Ledger, signer, ag.payer, key[2]).err = C15_TerminalError(ag)

\* C15 amended: on a completed (cancelled) agreement every approve, cancel,
\* referee_complete and referee_cancel fails and changes nothing; the error
\* is AgreementAlreadyCompleted (AgreementAlreadyCancelled) when the signer
\* is entitled to the call (payer or receiver for approve and cancel, the
\* referee for the referee calls) and the claimed receiver is the stored
\* one, Unauthorized for any other signer, and InvalidReceiver for an
\* entitled signer with another claimed receiver.
C15_TerminalCallsFail ==
    \A key \in initialized, signer \in Ids, receiver \in Ids :
        LET ag    == payment_agreement[key]
            party == signer = ag.payer \/ signer = ag.receiver
            ref   == ag.referee = Some(signer)
            Ra    == approve_payment_agreement(Ledger, signer, ag.payer, receiver, key[2])
            Rc    == cancel_payment_agreement(Ledger, signer, ag.payer, key[2])
            Rrc   == referee_intervene_complete_payment_agreement(
                         Ledger, signer, ag.payer, receiver, key[2])
            Rrx   == referee_intervene_cancel_payment_agreement(
                         Ledger, signer, ag.payer, key[2])
        IN IsTerminal(ag) =>
             /\ LedgerUnchanged(Ra) /\ LedgerUnchanged(Rc)
             /\ LedgerUnchanged(Rrc) /\ LedgerUnchanged(Rrx)
             /\ Ra.err = IF ~party THEN "Unauthorized"
                         ELSE IF receiver # ag.receiver THEN "InvalidReceiver"
                         ELSE C15_TerminalError(ag)
             /\ Rc.err = IF ~party THEN "Unauthorized" ELSE C15_TerminalError(ag)
             /\ Rrc.err = IF ~ref THEN "Unauthorized"
                          ELSE IF receiver # ag.receiver THEN "InvalidReceiver"
                          ELSE C15_TerminalError(ag)
             /\ Rrx.err = IF ~ref THEN "Unauthorized" ELSE C15_TerminalError(ag)

\* a completed agreement with a referee: the payer's cancel and the
\* referee's referee_cancel are refused as already completed, the referee's
\* cancel as unauthorized
C15_Witness ==
    \E k \in initialized :
        LET ag == payment_agreement[k] IN
        /\ ag.is_completed /\ is_some(ag.referee)
        /\ cancel_payment_agreement(Ledger, ag.payer, ag.payer, ag.name).err
             = "AgreementAlreadyCompleted"
        /\ referee_intervene_cancel_payment_agreement(
               Ledger, unwrap(ag.referee), ag.payer, ag.name).err
             = "AgreementAlreadyCompleted"
        /\ cancel_payment_agreement(Ledger, unwrap(ag.referee), ag.payer, ag.name).err
             = "Unauthorized"

\* ------------------------------------------------------------------------
\* C16
\* ------------------------------------------------------------------------

\* the four consent flags of an agreement
C16_Consent(ag) ==
    <<ag.payer_approved, ag.receiver_approved,
      ag.payer_requested_cancel, ag.receiver_requested_cancel>>

\* the step is the successful approve of signer on the agreement at k
C16_IsApproveBy(k, signer) ==
    LET ag == payment_agreement[k]
        R  == approve_payment_agreement(Ledger, signer, ag.payer, ag.receiver, k[2])
    IN R.err = "Ok" /\ LedgerNext = LedgerOf(R)

\* the step is the successful cancel of signer on the agreement at k
C16_IsCancelBy(k, signer) ==
    LET ag == payment_agreement[k]
        R  == cancel_payment_agreement(Ledger, signer, ag.payer, k[2])
    IN R.err = "Ok" /\ LedgerNext = LedgerOf(R)

\* in a step on an agreement that exists before and after it, a consent
\* flag is never cleared, and one that is set is set on an open agreement
\* by the call of its owner
C16_FlagsOwned ==
    \A k \in Keys :
        (k \in initialized /\ k \in initialized') =>
          LET ag  == payment_agreement[k]
              ag2 == payment_agreement'[k]
          IN /\ \A i \in 1..4 : C16_Consent(ag)[i] => C16_Consent(ag2)[i]
             /\ C16_Consent(ag2) # C16_Consent(ag) => IsOpen(ag)
             /\ (ag2.payer_approved /\ ~ag.payer_approved)
                  => C16_IsApproveBy(k, ag.payer)
             /\ (ag2.receiver_approved /\ ~ag.receiver_approved)
                  => C16_IsApproveBy(k, ag.receiver)
             /\ (ag2.payer_requested_cancel /\ ~ag.payer_requested_cancel)
                  => C16_IsCancelBy(k, ag.payer)
             /\ (ag2.receiver_requested_cancel /\ ~ag.receiver_requested_cancel)
                  => C16_IsCancelBy(k, ag.receiver)

\* no call signed by the referee or by a third identity changes a consent
\* flag of an existing agreement
C16_OthersChangeNothing ==
    \A key \in initialized, signer \in Ids, receiver \in Ids :
        LET ag == payment_agreement[key] IN
        signer \notin {ag.payer, ag.receiver} =>
          /\ C16_Consent(approve_payment_agreement(
                 Ledger, signer, ag.payer, receiver, key[2]).pa[key]) = C16_Consent(ag)
          /\ C16_Consent(cancel_payment_agreement(
                 Ledger, signer, ag.payer, key[2]).pa[key]) = C16_Consent(ag)
          /\ C16_Consent(referee_intervene_complete_payment_agreement(
                 Ledger, signer, ag.payer, receiver, key[2]).pa[key]) = C16_Consent(ag)
          /\ C16_Consent(referee_intervene_cancel_payment_agreement(
                 Ledger, signer, ag.payer, key[2]).pa[key]) = C16_Consent(ag)

\* C16: each of the four consent flags goes from false to true only in the
\* approve (cancel) of the stored payer or receiver it belongs to, on an
\* open agreement; no call of the referee or of a third identity changes
\* any of them, and no step sets one back to false.
C16_ConsentFlagsOwned ==
    []C16_OthersChangeNothing /\ [][C16_FlagsOwned]_vars

\* an open agreement with a referee on which the payer has both approved
\* and asked to cancel, the receiver neither
C16_Witness ==
    \E k \in initialized :
        LET ag == payment_agreement[k] IN
        /\ IsOpen(ag) /\ is_some(ag.referee)
        /\ C16_Consent(ag) = <<TRUE, FALSE, TRUE, FALSE>>

\* ------------------------------------------------------------------------
\* C17
\* ------------------------------------------------------------------------

\* C17: the terminal flags record how the terminal state was reached:
\* is_referee_intervened implies a terminal agreement that has a referee; a
\* completed agreement without intervention has both approvals; a
\* cancelled agreement without intervention has both cancel requests.
C17_TerminalFlagsTellHow ==
    \A k \in initialized :
        LET ag == payment_agreement[k] IN
        /\ ag.is_referee_intervened
             => (ag.is_completed \/ ag.is_cancelled) /\ is_some(ag.referee)
        /\ (ag.is_completed /\ ~ag.is_referee_intervened)
             => ag.payer_approved /\ ag.receiver_approved
        /\ (ag.is_cancelled /\ ~ag.is_referee_intervened)
             => ag.payer_requested_cancel /\ ag.receiver_requested_cancel

\* an agreement completed by its referee against a single approval, or
\* cancelled by its referee against a single cancel request
C17_Witness ==
    \E k \in initialized :
        LET ag == payment_agreement[k] IN
        /\ ag.is_referee_intervened
        /\ \/ ag.is_completed /\ ag.payer_approved /\ ~ag.receiver_approved
           \/ ag.is_cancelled /\ ag.receiver_requested_cancel
                              /\ ~ag.payer_requested_cancel

\* ------------------------------------------------------------------------
\* C18
\* ------------------------------------------------------------------------

\* the step ends the open agreement at k: it is terminal or gone afterwards
C18_EndsAgreement(k) ==
    /\ k \in initialized
    /\ IsOpen(payment_agreement[k])
    /\ k \notin initialized' \/ IsTerminal(payment_agreement'[k])

\* the step is the successful withdraw_expired_funds of the agreement at k
C18_IsWithdraw(k) ==
    LET R == withdraw_expired_funds(Ledger, k[1], k[2], clock)
    IN R.err = "Ok" /\ LedgerNext = LedgerOf(R)

\* as claimed: whichever transition ends an agreement, the record no
\* longer exists at its key afterwards
C18_EveryTerminalStepDestroys ==
    [][\A k \in Keys : C18_EndsAgreement(k) => k \notin initialized']_vars

\* a record disappears in the successful expiry reclaim and in no other
\* step; a step that completes or cancels an agreement leaves the record
\* at its key with its flags, holding the rent deposit and nothing else
C18_DestroyedByReclaimOnly ==
    \A k \in initialized :
        /\ k \notin initialized' <=> C18_IsWithdraw(k)
        /\ k \notin initialized'
             => /\ lamports'[k] = 0
                /\ payment_agreement'[k] = ZeroAgreement
        /\ (C18_EndsAgreement(k) /\ k \in initialized')
             => /\ lamports'[k] = Rent
                /\ Escrowed(lamports', initialized', k) = 0
                /\ ~C18_IsWithdraw(k)

\* C18 (amended): a record is destroyed only by a successful expiry
\* reclaim; after mutual approval, mutual cancellation or a referee
\* override has moved the full amount out of custody the record still
\* exists at its (payer, name) key, holding only its rent deposit.
C18_OnlyReclaimDestroys == [][C18_DestroyedByReclaimOnly]_vars

\* an agreement cancelled by its referee: the amount is back with the
\* payer and the record is still there
C18_Witness ==
    \E k \in initialized :
        LET ag == payment_agreement[k] IN
        /\ ag.is_cancelled /\ ag.is_referee_intervened
        /\ ag.amount > 0
        /\ lamports[k] = Rent
        /\ lamports[Wallet(ag.payer)] = PayerFunds - Rent

\* ------------------------------------------------------------------------
\* C19
\* ------------------------------------------------------------------------

\* the step is the successful referee completion of the agreement at k,
\* signed by its referee
C19_IsRefereeComplete(k) ==
    LET ag == payment_agreement[k] IN
    /\ is_some(ag.referee)
    /\ LET R == referee_intervene_complete_payment_agreement(
                    Ledger, unwrap(ag.referee), ag.payer, ag.receiver, k[2])
       IN R.err = "Ok" /\ LedgerNext = LedgerOf(R)

\* the step is the successful referee cancellation of the agreement at k,
\* signed by its referee
C19_IsRefereeCancel(k) ==
    LET ag == payment_agreement[k] IN
    /\ is_some(ag.referee)
    /\ LET R == referee_intervene_cancel_payment_agreement(
                    Ledger, unwrap(ag.referee), ag.payer, k[2])
       IN R.err = "Ok" /\ LedgerNext = LedgerOf(R)

\* the clock is strictly past the expiration of ag
C19_Expired(ag) ==
    is_some(ag.expiration_timestamp) /\ clock > unwrap(ag.expiration_timestamp)

\* a step that takes lamports out of the agreement's account and credits
\* the receiver is the referee's, or leaves payer_approved set; one that
\* credits the payer is the referee's, or leaves receiver_requested_cancel
\* set, or is the payer's withdrawal strictly after the expiration
C19_ReleaseNeedsConsent ==
    \A k \in initialized :
        LET ag == payment_agreement[k] IN
        lamports'[k] < lamports[k] =>
          /\ lamports'[Wallet(ag.receiver)] > lamports[Wallet(ag.receiver)]
               => \/ C19_IsRefereeComplete(k)
                  \/ k \in initialized' /\ payment_agreement'[k].payer_approved
          /\ lamports'[Wallet(ag.payer)] > lamports[Wallet(ag.payer)]
               => \/ C19_IsRefereeCancel(k)
                  \/ k \in initialized'
                       /\ payment_agreement'[k].receiver_requested_cancel
                  \/ C19_Expired(ag) /\ C18_IsWithdraw(k)

\* the results of the calls signer can make on the agreement at key
C19_CallsBy(key, signer) ==
    LET ag == payment_agreement[key] IN
    {approve_payment_agreement(Ledger, signer, ag.payer, r, key[2]) : r \in Ids}
    \cup {referee_intervene_complete_payment_agreement(
              Ledger, signer, ag.payer, r, key[2]) : r \in Ids}
    \cup {cancel_payment_agreement(Ledger, signer, ag.payer, key[2]),
          referee_intervene_cancel_payment_agreement(
              Ledger, signer, ag.payer, key[2])}

\* while the payer has not approved, no call of the receiver credits the
\* receiver or sets payer_approved; while the receiver has not asked to
\* cancel and the expiration has not passed, no call of the payer credits
\* the payer or sets receiver_requested_cancel
C19_NoUnilateralCall ==
    \A key \in initialized :
        LET ag == payment_agreement[key] IN
        /\ ~ag.payer_approved =>
             \A R \in C19_CallsBy(key, ag.receiver) :
                 /\ R.lam[Wallet(ag.receiver)] = lamports[Wallet(ag.receiver)]
                 /\ ~R.pa[key].payer_approved
        /\ (~ag.receiver_requested_cancel /\ ~C19_Expired(ag)) =>
             \A R \in C19_CallsBy(key, ag.payer)
                      \cup {withdraw_expired_funds(Ledger, ag.payer, key[2], clock)} :
                 /\ R.lam[Wallet(ag.payer)] = lamports[Wallet(ag.payer)]
                 /\ key \in R.init
                 /\ ~R.pa[key].receiver_requested_cancel

\* C19: no unilateral release. Funds leave custody for the receiver only
\* in the referee's step or in a step after which payer_approved is true,
\* and for the payer only in the referee's step, in a step after which
\* receiver_requested_cancel is true, or in the payer's withdrawal strictly
\* after the expiration; calls of the receiver alone never release the
\* funds and calls of the payer alone never return them before expiry.
C19_NoUnilateralRelease ==
    []C19_NoUnilateralCall /\ [][C19_ReleaseNeedsConsent]_vars

\* an unexpired open agreement on which the receiver has approved and the
\* payer has asked to cancel, each alone: the amount is still in custody
C19_Witness ==
    \E k \in initialized :
        LET ag == payment_agreement[k] IN
        /\ IsOpen(ag) /\ ag.amount > 0
        /\ ag.receiver_approved /\ ~ag.payer_approved
        /\ ag.payer_requested_cancel /\ ~ag.receiver_requested_cancel
        /\ is_some(ag.expiration_timestamp) /\ ~C19_Expired(ag)
        /\ lamports[k] = Rent + ag.amount

\* ------------------------------------------------------------------------
\* C20
\* ------------------------------------------------------------------------

\* what an open agreement answers to a party call, by roles alone
C20_PartyAnswer(ag, signer, receiver) ==
    IF signer \notin {ag.payer, ag.receiver} THEN "Unauthorized"
    ELSE IF receiver # ag.receiver THEN "InvalidReceiver"
    ELSE "Ok"

\* what an open agreement answers to a referee call, by roles alone
C20_RefereeAnswer(ag, signer, receiver) ==
    IF ~is_some(ag.referee) \/ signer # unwrap(ag.referee) THEN "Unauthorized"
    ELSE IF receiver # ag.receiver THEN "InvalidReceiver"
    ELSE "Ok"

\* on the expired open agreement at key the four calls answer as on an
\* unexpired one
C20_StillEnabled(key) ==
    LET ag == payment_agreement[key] IN
    \A signer \in Ids, receiver \in Ids :
        /\ approve_payment_agreement(Ledger, signer, ag.payer, receiver, key[2]).err
             = C20_PartyAnswer(ag, signer, receiver)
        /\ cancel_payment_agreement(Ledger, signer, ag.payer, key[2]).err
             = C20_PartyAnswer(ag, signer, ag.receiver)
        /\ referee_intervene_complete_payment_agreement(
               Ledger, signer, ag.payer, receiver, key[2]).err
             = C20_RefereeAnswer(ag, signer, receiver)
        /\ referee_intervene_cancel_payment_agreement(
               Ledger, signer, ag.payer, key[2]).err
             = C20_RefereeAnswer(ag, signer, ag.receiver)

\* the second approval of the expired agreement at key completes it and
\* pays the receiver
C20_SecondApprovalPays(key) ==
    LET ag == payment_agreement[key] IN
    \A signer \in {ag.payer, ag.receiver} :
        LET other == IF signer = ag.payer THEN ag.receiver_approved
                     ELSE ag.payer_approved
            R == approve_payment_agreement(Ledger, signer, ag.payer, ag.receiver, key[2])
        IN other =>
             /\ R.err = "Ok"
             /\ R.pa[key].is_completed
             /\ R.lam = Moved(lamports, key, Wallet(ag.receiver), ag.amount)

\* the calls that can end the agreement at key, applied to the ledger
C20_Competitors(key) ==
    {R \in UNION {C19_CallsBy(key, signer) : signer \in Ids} :
        R.err = "Ok" /\ IsTerminal(R.pa[key])}

\* whichever of the withdrawal and a competing terminal call runs first
\* takes the funds; the other then fails and leaves the ledger as the
\* first left it
C20_FirstTakesFunds(key) ==
    LET ag == payment_agreement[key]
        W  == withdraw_expired_funds(Ledger, ag.payer, key[2], clock)
    IN /\ W.err = "Ok"
       /\ W.lam[Wallet(ag.payer)] = lamports[Wallet(ag.payer)] + lamports[key]
       /\ C9_AllCallsFail(LedgerOf(W), ag.payer, key[2], clock)
       /\ \A R \in C20_Competitors(key) :
             /\ R.lam[key] = Rent
             /\ LET W2 == withdraw_expired_funds(LedgerOf(R), ag.payer, key[2], clock)
                IN /\ W2.err = IF R.pa[key].is_completed
                               THEN "AgreementAlreadyCompleted"
                               ELSE "AgreementAlreadyCancelled"
                   /\ LedgerOf(W2) = LedgerOf(R)

\* C20: expiration only enables reclaim_expired and disables nothing: on
\* an open agreement whose expiration has passed, approve, cancel and the
\* referee calls answer under the same guards as before, a second approval
\* still completes the agreement and pays the receiver, and whichever of
\* reclaim_expired and a competing terminal call is executed first takes
\* the funds while the other then fails without moving funds.
C20_ExpirationDisablesNothing ==
    \A key \in initialized :
        (IsOpen(payment_agreement[key]) /\ C19_Expired(payment_agreement[key])) =>
          /\ C20_StillEnabled(key)
          /\ C20_SecondApprovalPays(key)
          /\ C20_FirstTakesFunds(key)

\* an expired open agreement with a referee, a positive amount and the
\* payer's approval: the receiver's approval, the referee's calls and the
\* payer's withdrawal all compete for the funds
C20_Witness ==
    \E k \in initialized :
        LET ag == payment_agreement[k] IN
        /\ IsOpen(ag) /\ C19_Expired(ag)
        /\ ag.amount > 0 /\ is_some(ag.referee)
        /\ ag.payer_approved /\ ~ag.receiver_approved
        /\ approve_payment_agreement(
               Ledger, ag.receiver, ag.payer, ag.receiver, k[2]).pa[k].is_completed
        /\ withdraw_expired_funds(Ledger, ag.payer, k[2], clock).err = "Ok"
        /\ Cardinality(C20_Competitors(k)) >= 3

====
